---- MODULE Spec2Model ----
(***************************************************************************)
(* A model of the two tutorial notebooks (tutorials/2.tips.ipynb and       *)
(* tutorials/3.0.applications-rag.ipynb) run top to bottom, and of the     *)
(* local pre-commit hook ci_type_mypy of .pre-commit-config.yaml.          *)
(*                                                                         *)
(* A class definition is identified by the source line of its `class`      *)
(* statement.  A JSON object produced by the language model is a record    *)
(* [keys, house, subs, id, friends]: the set of fields present, the value  *)
(* of the house field, the nested objects (properties, the date range,     *)
(* the queries, the plan), and the id and friends of a relationship        *)
(* character.  Fields a class does not declare hold "" / <<>> / 0.         *)
(***************************************************************************)
EXTENDS Integers, Sequences, FiniteSets, TLC

VARIABLES
    nb,         \* the notebook being run: "none", "tips" or "rag"
    cell,       \* index of the code cell being executed (0 before the run)
    pc,         \* position inside the cell
    env,        \* kernel namespace: class name -> [line, sub] of its binding
    req,        \* the outstanding request: [model, sub, n] (model = 0: none)
    inflight,   \* number of requests issued and not yet finished
    issued,     \* number of requests issued by the current cell
    resp,       \* kernel variable holding the last result: [model, items]
    shown,      \* what the current cell has printed or displayed so far
    err,        \* the exception that stopped the run ("none" while running)
    dot,        \* the graphviz Digraph: [nodes, edges]
    dispatched, \* queries handed to a search backend
    hpc,        \* position of the pre-commit hook run
    staged,     \* files staged in the commit
    hookArgv,   \* filenames pre-commit appends to the hook's entry
    packages,   \* paths exported in CUSTOM_PACKAGES
    pipefail,   \* the shell's pipefail option
    curlExit,   \* exit status of curl (-1 while running)
    bashExit,   \* exit status of the bash reading the pipe (-1 while running)
    hookExit    \* exit status of the entry (-1 until it ends)

nbVars == <<nb, cell, pc, env, req, inflight, issued, resp, shown, err, dot,
            dispatched>>
hookVars == <<hpc, staged, hookArgv, packages, pipefail, curlExit, bashExit,
              hookExit>>
vars == <<nbVars, hookVars>>

----------------------------------------------------------------------------
(* Bounds of the model *)

\* longest list an Iterable response holds
MaxItems == 2
\* longest properties list of a Character
MaxProps == 6
\* longest queries / plan list
MaxQueries == 2
\* largest character id the model invents
MaxId == 2
\* most integers (ids and friend ids) a relationship response holds
MaxTokens == 4

RECURSIVE SeqsUpTo(_, _)
SeqsUpTo(S, n) ==
    IF n = 0 THEN {<<>>}
    ELSE LET shorter == SeqsUpTo(S, n - 1)
         IN  shorter \cup {Append(s, x) : s \in {t \in shorter : Len(t) = n - 1}, x \in S}

----------------------------------------------------------------------------
(* The classes of the notebooks *)

ClassNames == {"House", "Character", "Property", "Extraction", "DateRange",
               "Query", "SearchClient", "Retrival", "Question", "QueryPlan"}

\* class House(Enum): the values of its four members
HouseEnum == {"gryffindor", "hufflepuff", "ravenclaw", "slytherin"}

\* Literal["Gryffindor", "Hufflepuff", "Ravenclaw", "Slytherin"]
HouseLiteral == {"Gryffindor", "Hufflepuff", "Ravenclaw", "Slytherin"}

\* strings a response may carry in a house field
RawHouses == {"gryffindor", "slytherin", "Gryffindor", "Slytherin", "Durmstrang"}

\* str.title() on the strings this model uses
Title(s) ==
    CASE s = "gryffindor" -> "Gryffindor"
      [] s = "hufflepuff" -> "Hufflepuff"
      [] s = "ravenclaw" -> "Ravenclaw"
      [] s = "slytherin" -> "Slytherin"
      [] OTHER -> s

\* house declared as plain str: any string validates
HouseTypeStr(l) == RawHouses \cup HouseEnum \cup HouseLiteral

\* the values the house field of the Character class at line l admits
HouseType(l) == IF l = 70 THEN HouseEnum ELSE HouseLiteral

\* Literal["gmail", "calendar"]
SourceLiteral == {"gmail", "calendar"}

\* strings a response may carry in a source field
RawSources == {"gmail", "calendar", "slack"}

\* source declared as plain str: any string validates
SourceTypeStr(l) == RawSources

\* the values the source field of the SearchClient class at line l admits
SourceType(l) == SourceLiteral

\* the fields the classes of tutorials/2.tips.ipynb declare
TipsFields(l) ==
    CASE l = 70 -> {"age", "name", "house"}
      [] l = 125 -> {"age", "name", "house"}
      [] l = 159 -> {"key", "value"}
      [] l = 164 -> {"age", "name", "house", "properties"}
      [] l = 224 -> {"index", "key", "value"}
      [] l = 230 -> {"age", "name", "house", "properties"}
      [] l = 277 -> {"age", "name", "house"}
      [] l = 312 -> {"age", "name", "house"}
      [] l = 358 -> {"id", "name", "friends"}
      [] OTHER -> {}

\* the fields the classes of tutorials/3.0.applications-rag.ipynb declare
RagFields(l) ==
    CASE l = 114 -> {"topic", "summary", "hypothetical_questions", "keywords"}
      [] l = 236 -> {"start", "end"}
      [] l = 240 -> {"rewritten_query", "published_daterange"}
      [] l = 327 -> {"chain_of_thought", "start", "end"}
      [] l = 334 -> {"rewritten_query", "published_daterange"}
      [] l = 378 -> {"query", "keywords", "email", "source", "date_range"}
      [] l = 385 -> {"queries"}
      [] l = 571 -> {"id", "query", "subquestions"}
      [] l = 577 -> {"root_question", "plan"}
      [] OTHER -> {}

\* the fields the class defined at line l declares
Fields(l) == TipsFields(l) \cup RagFields(l)

\* the fields with a default (default_factory=list)
Defaulted(l) ==
    CASE l = 114 -> {"hypothetical_questions", "keywords"}
      [] l = 571 -> {"subquestions"}
      [] OTHER -> {}

\* the fields a response must carry: those without a default
Required(l) == Fields(l) \ Defaulted(l)

NoNested == [key |-> "", name |-> "", list |-> FALSE]

\* properties: List[Property]
TipsNested(l) ==
    IF l \in {164, 230} THEN [key |-> "properties", name |-> "Property", list |-> TRUE]
    ELSE NoNested

\* published_daterange: DateRange, queries: List[SearchClient], plan: List[Question]
RagNested(l) ==
    CASE l \in {240, 334} ->
           [key |-> "published_daterange", name |-> "DateRange", list |-> FALSE]
      [] l = 385 -> [key |-> "queries", name |-> "SearchClient", list |-> TRUE]
      [] l = 577 -> [key |-> "plan", name |-> "Question", list |-> TRUE]
      [] OTHER -> NoNested

\* the field of the class at line l that holds nested objects ("" if none)
NestedKey(l) == IF TipsNested(l) # NoNested THEN TipsNested(l).key ELSE RagNested(l).key

\* the class of the nested objects, looked up when the class is created
NestedName(l) == IF TipsNested(l) # NoNested THEN TipsNested(l).name ELSE RagNested(l).name

\* whether the nested field is a List[...]
NestedList(l) == IF TipsNested(l) # NoNested THEN TipsNested(l).list ELSE RagNested(l).list

----------------------------------------------------------------------------
(* JSON objects and their validation against a class *)

Item(k, h, ss, i, fr) == [keys |-> k, house |-> h, subs |-> ss, id |-> i, friends |-> fr]

SubItem(k, s) == [keys |-> k, source |-> s]

\* a nested object s is accepted by the class at line sl
ValidSub(sl, s) ==
    /\ Required(sl) \subseteq s.keys
    /\ "source" \in Fields(sl) => s.source \in SourceType(sl)

\* the object raw is accepted by the class at line l whose nested class is at sl
Valid(l, sl, raw) ==
    /\ Required(l) \subseteq raw.keys
    /\ "house" \in Fields(l) => raw.house \in HouseType(l)
    /\ NestedKey(l) # "" =>
          /\ NestedList(l) \/ Len(raw.subs) = 1
          /\ \A i \in DOMAIN raw.subs : ValidSub(sl, raw.subs[i])

\* the instance built from an accepted object: exactly the declared fields
\* (defaults filled in, undeclared keys dropped)
Parse(l, sl, raw) ==
    [keys |-> Fields(l),
     house |-> IF "house" \in Fields(l) THEN raw.house ELSE "",
     subs |-> IF NestedKey(l) = "" THEN <<>>
              ELSE [i \in DOMAIN raw.subs |->
                      SubItem(Fields(sl),
                              IF "source" \in Fields(sl) THEN raw.subs[i].source ELSE "")],
     id |-> IF "id" \in Fields(l) THEN raw.id ELSE 0,
     friends |-> IF "friends" \in Fields(l) THEN raw.friends ELSE <<>>]

----------------------------------------------------------------------------
(* What the language model may answer, by the shape the prompt asks for *)

RawProps == {SubItem({"index", "key", "value"}, ""), SubItem({"key", "value"}, "")}

RawRanges == {SubItem({"start", "end"}, ""),
              SubItem({"chain_of_thought", "start", "end"}, ""),
              SubItem({"start"}, "")}

RawClients ==
    {SubItem({"query", "keywords", "email", "source", "date_range"}, s) : s \in RawSources}
    \cup {SubItem({"query", "keywords", "source", "date_range"}, "gmail")}

RawQuestions == {SubItem({"id", "query", "subquestions"}, ""),
                 SubItem({"id", "query"}, ""),
                 SubItem({"query"}, "")}

\* the relationship characters that hold k integers: an id and k - 1 friends
RelChars(k) ==
    {Item({"id", "name", "friends"}, "", <<>>, i, fr) :
       i \in 1..MaxId, fr \in {f \in SeqsUpTo(1..MaxId, k - 1) : Len(f) = k - 1}}

\* the lists of relationship characters that hold at most n integers
RECURSIVE RelLists(_)
RelLists(n) ==
    {<<>>} \cup UNION {LET rest == RelLists(n - k)
                       IN  {<<c>> \o r : c \in RelChars(k), r \in rest} : k \in 1..n}

RawItems(shape) ==
    CASE shape = "character" ->
           {Item(k, h, <<>>, 0, <<>>) :
              k \in {{"age", "name", "house"}, {"name", "house"}}, h \in RawHouses}
      [] shape = "props" ->
           {Item({"age", "name", "house", "properties"}, h, ps, 0, <<>>) :
              h \in RawHouses, ps \in SeqsUpTo(RawProps, MaxProps)}
      [] shape = "rel" -> UNION {RelChars(k) : k \in 1..MaxTokens}
      [] shape = "extraction" ->
           {Item(k, "", <<>>, 0, <<>>) :
              k \in {{"topic", "summary"},
                     {"topic", "summary", "hypothetical_questions", "keywords"},
                     {"topic"}}}
      [] shape = "query" ->
           {Item(k, "", <<d>>, 0, <<>>) :
              k \in {{"rewritten_query", "published_daterange"},
                     {"rewritten_query", "published_daterange", "domains"},
                     {"rewritten_query"}},
              d \in RawRanges}
      [] shape = "retrival" ->
           {Item({"queries"}, "", qs, 0, <<>>) : qs \in SeqsUpTo(RawClients, MaxQueries)}
      [] shape = "plan" ->
           {Item(k, "", qs, 0, <<>>) :
              k \in {{"root_question", "plan"}, {"plan"}},
              qs \in SeqsUpTo(RawQuestions, MaxQueries)}
      [] OTHER -> {}

----------------------------------------------------------------------------
(* The code cells of the two notebooks, in order *)

Cell(f, d, r, m, st, it, sh, disp) ==
    [first |-> f, defs |-> d, request |-> r, model |-> m, stream |-> st,
     iterable |-> it, shape |-> sh, display |-> disp]

TipsCells ==
    << Cell(51, <<<<"House", 63>>, <<"Character", 70>>>>, TRUE, "Character",
            FALSE, FALSE, "character", "dump"),
       Cell(104, <<>>, FALSE, "", FALSE, FALSE, "", "hello"),
       Cell(125, <<<<"Character", 125>>>>, TRUE, "Character",
            FALSE, FALSE, "character", "dump"),
       Cell(156, <<<<"Property", 159>>, <<"Character", 164>>>>, TRUE, "Character",
            FALSE, FALSE, "props", "dump"),
       Cell(224, <<<<"Property", 224>>, <<"Character", 230>>>>, TRUE, "Character",
            FALSE, FALSE, "props", "dump"),
       Cell(274, <<<<"Character", 277>>>>, TRUE, "Character",
            FALSE, TRUE, "character", "loop"),
       Cell(309, <<<<"Character", 312>>>>, TRUE, "Character",
            TRUE, TRUE, "character", "loop"),
       Cell(358, <<<<"Character", 358>>>>, TRUE, "Character",
            TRUE, TRUE, "rel", "loop"),
       Cell(484, <<>>, TRUE, "Character", FALSE, TRUE, "rel", "graph") >>

RagCells ==
    << Cell(81, <<>>, FALSE, "", FALSE, FALSE, "", "none"),
       Cell(114, <<<<"Extraction", 114>>>>, FALSE, "", FALSE, FALSE, "", "none"),
       Cell(168, <<>>, TRUE, "Extraction", TRUE, TRUE, "extraction", "loop"),
       Cell(234, <<<<"DateRange", 236>>, <<"Query", 240>>>>, FALSE, "",
            FALSE, FALSE, "", "none"),
       Cell(281, <<>>, TRUE, "Query", FALSE, FALSE, "query", "dump"),
       Cell(327, <<<<"DateRange", 327>>, <<"Query", 334>>>>, TRUE, "Query",
            FALSE, FALSE, "query", "dump"),
       Cell(376, <<<<"SearchClient", 378>>, <<"Retrival", 385>>>>, FALSE, "",
            FALSE, FALSE, "", "none"),
       Cell(432, <<>>, TRUE, "Retrival", FALSE, FALSE, "retrival", "dump"),
       Cell(497, <<>>, TRUE, "Retrival", FALSE, FALSE, "retrival", "dump"),
       Cell(571, <<<<"Question", 571>>, <<"QueryPlan", 577>>>>, TRUE, "QueryPlan",
            FALSE, FALSE, "plan", "dump") >>

Cells(n) == IF n = "tips" THEN TipsCells ELSE RagCells

Cur == Cells(nb)[cell]

\* a class bound to the nested class of the namespace the cell started with
RECURSIVE BindStale(_, _, _)
BindStale(e, d, k) ==
    IF k = 0 THEN e
    ELSE LET before == BindStale(e, d, k - 1)
             name == d[k][1]
             line == d[k][2]
             sub == IF NestedName(line) = "" THEN 0 ELSE e[NestedName(line)].line
         IN  [before EXCEPT ![name] = [line |-> line, sub |-> sub]]

\* the namespace after the class statements d[1..k] ran on namespace e
RECURSIVE Bind(_, _, _)
Bind(e, d, k) ==
    IF k = 0 THEN e
    ELSE LET before == Bind(e, d, k - 1)
             name == d[k][1]
             line == d[k][2]
             sub == IF NestedName(line) = "" THEN 0 ELSE before[NestedName(line)].line
         IN  [before EXCEPT ![name] = [line |-> line, sub |-> sub]]

\* the responses the service may produce for the request of cell c
Responses(c) ==
    IF c.iterable
    THEN IF c.shape = "rel" THEN RelLists(MaxTokens)
         ELSE SeqsUpTo(RawItems(c.shape), MaxItems)
    ELSE {<<r>> : r \in RawItems(c.shape)}

NoReq == [model |-> 0, sub |-> 0, n |-> 0]

----------------------------------------------------------------------------
(* The relationship graph of tutorials/2.tips.ipynb *)

\* str() of the small non-negative integers the model uses
Str(i) == <<"0", "1", "2", "3", "4", "5", "6", "7", "8", "9">>[i + 1]

NoGraph == [nodes |-> <<>>, edges |-> <<>>]

\* for user in resp: dot.node(str(user.id), user.name)
RECURSIVE NodesOf(_)
NodesOf(users) ==
    IF users = <<>> THEN <<>>
    ELSE <<Str(Head(users).id)>> \o NodesOf(Tail(users))

\* the test written friend_id >= user.id
RECURSIVE FriendEdgesGeq(_, _)
FriendEdgesGeq(uid, friends) ==
    IF friends = <<>> THEN <<>>
    ELSE (IF Head(friends) >= uid THEN <<<<Str(uid), Str(Head(friends))>>>> ELSE <<>>)
         \o FriendEdgesGeq(uid, Tail(friends))

\* for friend_id in user.friends: if friend_id > user.id: dot.edge(...)
RECURSIVE FriendEdges(_, _)
FriendEdges(uid, friends) ==
    IF friends = <<>> THEN <<>>
    ELSE (IF Head(friends) > uid THEN <<<<Str(uid), Str(Head(friends))>>>> ELSE <<>>)
         \o FriendEdges(uid, Tail(friends))

\* for user in resp: the edges of each user, in order
RECURSIVE EdgesOf(_)
EdgesOf(users) ==
    IF users = <<>> THEN <<>>
    ELSE FriendEdges(Head(users).id, Head(users).friends) \o EdgesOf(Tail(users))

----------------------------------------------------------------------------
(* Running a notebook top to bottom *)

NbInit ==
    /\ nb = "none"
    /\ cell = 0
    /\ pc = "idle"
    /\ env = [c \in ClassNames |-> [line |-> 0, sub |-> 0]]
    /\ req = NoReq
    /\ inflight = 0
    /\ issued = 0
    /\ resp = [model |-> 0, sub |-> 0, items |-> <<>>]
    /\ shown = <<>>
    /\ err = "none"
    /\ dot = NoGraph
    /\ dispatched = {}

\* Run All on one of the notebooks
RunAll(n) ==
    /\ pc = "idle"
    /\ nb' = n
    /\ cell' = 1
    /\ pc' = "defs"
    /\ UNCHANGED <<env, req, inflight, issued, resp, shown, err, dot, dispatched>>

\* the statements of the cell before its request: imports, class statements,
\* dot = Digraph()
Define ==
    /\ pc = "defs"
    /\ env' = Bind(env, Cur.defs, Len(Cur.defs))
    /\ dot' = IF Cur.display = "graph" THEN NoGraph ELSE dot
    /\ pc' = IF Cur.request THEN "call"
             ELSE IF Cur.display # "none" THEN "show" ELSE "end"
    /\ UNCHANGED <<nb, cell, req, inflight, issued, resp, shown, err, dispatched>>

\* the call is fired without waiting for its result
IssueAsync ==
    /\ pc = "call"
    /\ LET b == env[Cur.model]
       IN  /\ req' = [model |-> b.line, sub |-> b.sub, n |-> 0]
           /\ inflight' = inflight + 1
           /\ issued' = issued + 1
    /\ pc' = "end"
    /\ UNCHANGED <<nb, cell, env, resp, shown, err, dot, dispatched>>

\* client.chat.completions.create(..., response_model=<class>) is called
Issue ==
    /\ pc = "call"
    /\ LET b == env[Cur.model]
       IN  IF b.line = 0
           THEN /\ pc' = "error"
                /\ err' = "NameError"
                /\ UNCHANGED <<req, inflight, issued, resp>>
           ELSE /\ req' = [model |-> b.line, sub |-> b.sub, n |-> 0]
                /\ inflight' = inflight + 1
                /\ issued' = issued + 1
                /\ err' = err
                /\ IF Cur.stream
                   THEN /\ pc' = "stream"
                        /\ resp' = [model |-> b.line, sub |-> b.sub, items |-> <<>>]
                   ELSE /\ pc' = "wait"
                        /\ resp' = resp
    /\ UNCHANGED <<nb, cell, env, shown, dot, dispatched>>

\* the call returns: every object of the response was accepted
Return ==
    /\ pc = "wait"
    /\ \E raws \in Responses(Cur) :
          /\ \A i \in DOMAIN raws : Valid(req.model, req.sub, raws[i])
          /\ resp' = [model |-> req.model, sub |-> req.sub,
                      items |-> [i \in DOMAIN raws |-> Parse(req.model, req.sub, raws[i])]]
    /\ req' = NoReq
    /\ inflight' = inflight - 1
    /\ pc' = "show"
    /\ UNCHANGED <<nb, cell, env, issued, shown, err, dot, dispatched>>

\* the call raises and the cell calls again
FailRetry ==
    /\ pc = "wait"
    /\ err' \in {"network", "malformed"}
    /\ req' = NoReq
    /\ inflight' = inflight - 1
    /\ pc' = "call"
    /\ UNCHANGED <<nb, cell, env, issued, resp, shown, dot, dispatched>>

\* the call raises: the network failed, the output was not JSON, or an object
\* of the response was rejected by the class
Fail ==
    /\ pc = "wait"
    /\ \/ err' \in {"network", "malformed"}
       \/ /\ \E raws \in Responses(Cur) :
                \E i \in DOMAIN raws : ~Valid(req.model, req.sub, raws[i])
          /\ err' = "validation"
    /\ req' = NoReq
    /\ inflight' = inflight - 1
    /\ pc' = "error"
    /\ UNCHANGED <<nb, cell, env, issued, resp, shown, dot, dispatched>>

\* the integers the relationship characters of a list hold
RECURSIVE Tokens(_)
Tokens(users) ==
    IF users = <<>> THEN 0
    ELSE 1 + Len(Head(users).friends) + Tokens(Tail(users))

\* the stream so far, with raw added, stays within the bounds of the model
StreamRoom(raw) ==
    /\ req.n < MaxItems
    /\ Cur.shape = "rel" => Tokens(shown) + 1 + Len(raw.friends) <= MaxTokens

\* one turn of `for x in resp: print(x)` over a stream: the next object
\* arrives, is accepted and is printed
StreamNext ==
    /\ pc = "stream"
    /\ \E raw \in RawItems(Cur.shape) :
          /\ StreamRoom(raw)
          /\ Valid(req.model, req.sub, raw)
          /\ shown' = Append(shown, Parse(req.model, req.sub, raw))
    /\ req' = [req EXCEPT !.n = @ + 1]
    /\ UNCHANGED <<nb, cell, pc, env, inflight, issued, resp, err, dot, dispatched>>

\* the stream raises while the loop is consuming it
StreamFail ==
    /\ pc = "stream"
    /\ \/ err' \in {"network", "malformed"}
       \/ /\ \E raw \in RawItems(Cur.shape) : ~Valid(req.model, req.sub, raw)
          /\ err' = "validation"
    /\ req' = NoReq
    /\ inflight' = inflight - 1
    /\ pc' = "error"
    /\ UNCHANGED <<nb, cell, env, issued, resp, shown, dot, dispatched>>

\* the stream is exhausted and the loop ends
StreamEnd ==
    /\ pc = "stream"
    /\ req' = NoReq
    /\ inflight' = inflight - 1
    /\ pc' = "end"
    /\ UNCHANGED <<nb, cell, env, issued, resp, shown, err, dot, dispatched>>

\* the print statement does not wait for the call to return
DumpEarly ==
    /\ pc \in {"wait", "show"}
    /\ Cur.display = "dump"
    /\ shown' = resp.items
    /\ pc' = IF pc = "show" THEN "end" ELSE pc
    /\ UNCHANGED <<nb, cell, env, req, inflight, issued, resp, err, dot, dispatched>>

\* resp.model_dump() / print(x.model_dump_json(indent=4))
Dump ==
    /\ pc = "show"
    /\ Cur.display = "dump"
    /\ shown' = resp.items
    /\ pc' = "end"
    /\ UNCHANGED <<nb, cell, env, req, inflight, issued, resp, err, dot, dispatched>>

\* resp.say_hello()
Hello ==
    /\ pc = "show"
    /\ Cur.display = "hello"
    /\ shown' = <<Item({"hello"}, Title(resp.items[1].house), <<>>, 0, <<>>)>>
    /\ pc' = "end"
    /\ UNCHANGED <<nb, cell, env, req, inflight, issued, resp, err, dot, dispatched>>

\* one turn of `for x in resp: print(x)` over a returned list
LoopPrint ==
    /\ pc = "show"
    /\ Cur.display = "loop"
    /\ Len(shown) < Len(resp.items)
    /\ shown' = Append(shown, resp.items[Len(shown) + 1])
    /\ UNCHANGED <<nb, cell, pc, env, req, inflight, issued, resp, err, dot, dispatched>>

\* the loop over a returned list ends
LoopEnd ==
    /\ pc = "show"
    /\ Cur.display = "loop"
    /\ Len(shown) = Len(resp.items)
    /\ pc' = "end"
    /\ UNCHANGED <<nb, cell, env, req, inflight, issued, resp, shown, err, dot, dispatched>>

\* the node loop, the edge loop and display(dot)
Graph ==
    /\ pc = "show"
    /\ Cur.display = "graph"
    /\ dot' = [nodes |-> dot.nodes \o NodesOf(resp.items),
               edges |-> dot.edges \o EdgesOf(resp.items)]
    /\ shown' = <<Item({"digraph"}, "", <<>>, 0, <<>>)>>
    /\ pc' = "end"
    /\ UNCHANGED <<nb, cell, env, req, inflight, issued, resp, err, dispatched>>

\* the kernel goes on to the next code cell, or the run is over
NextCell ==
    /\ pc = "end"
    /\ IF cell < Len(Cells(nb))
       THEN /\ cell' = cell + 1
            /\ pc' = "defs"
       ELSE /\ cell' = cell
            /\ pc' = "finished"
    /\ shown' = <<>>
    /\ issued' = 0
    /\ UNCHANGED <<nb, env, req, inflight, resp, err, dot, dispatched>>

----------------------------------------------------------------------------
(* The local hook ci_type_mypy of .pre-commit-config.yaml *)

\* files a commit may stage (a commit stages at least one)
Files == {"instructor/cli/cli.py", "instructor/cli/usage.py", "instructor/patch.py",
          "README.md"}

\* the type tags pre-commit gives a file
TypesOf(f) == IF f = "README.md" THEN {"file", "text", "markdown"}
              ELSE {"file", "text", "python"}

\* types: [python]
HookTypes == {"python"}

\* pass_filenames: true
PassFilenamesTrue == TRUE

\* pass_filenames: false
PassFilenames == FALSE

\* always_run is not set: a hook that matches no file is skipped
AlwaysRun == FALSE

\* export CUSTOM_PACKAGES="instructor/cli/cli.py instructor/cli/usage.py"
CustomPackages == {"instructor/cli/cli.py", "instructor/cli/usage.py"}

\* the entry without `set -o pipefail`
PipeFailOff == FALSE

\* set -o pipefail
PipeFail == TRUE

\* exit statuses of curl -sSL: success, host not resolved, timeout
CurlStatuses == {0, 6, 28}

\* exit statuses of the bash that reads the script from the pipe
BashStatuses == {0, 1, 127}

\* the staged files the hook applies to
Matched(S) == {f \in S : HookTypes \subseteq TypesOf(f)}

\* exit status of `curl ... | bash`: with pipefail the rightmost non-zero
\* status, or zero if both are zero; without it the status of bash
PipeStatus(pf, c, b) == IF pf THEN (IF b # 0 THEN b ELSE c) ELSE b

\* pre-commit runs on a commit that stages S
HookStart(S) ==
    /\ hpc = "idle"
    /\ staged' = S
    /\ IF Matched(S) = {} /\ ~AlwaysRun
       THEN /\ hpc' = "skipped"
            /\ hookArgv' = hookArgv
       ELSE /\ hpc' = "entry"
            /\ hookArgv' = IF PassFilenames THEN Matched(S) ELSE {}
    /\ UNCHANGED <<packages, pipefail, curlExit, bashExit, hookExit>>

\* set -o pipefail; export CUSTOM_PACKAGES=... && export CUSTOM_FLAGS=... &&
SetUp ==
    /\ hpc = "entry"
    /\ pipefail' = PipeFail
    /\ packages' = CustomPackages
    /\ hpc' = "pipe"
    /\ UNCHANGED <<staged, hookArgv, curlExit, bashExit, hookExit>>

\* curl -sSL <url> ends
CurlEnds(c) ==
    /\ hpc = "pipe"
    /\ curlExit = -1
    /\ curlExit' = c
    /\ UNCHANGED <<hpc, staged, hookArgv, packages, pipefail, bashExit, hookExit>>

\* the bash at the end of the pipe ends
BashEnds(b) ==
    /\ hpc = "pipe"
    /\ bashExit = -1
    /\ bashExit' = b
    /\ UNCHANGED <<hpc, staged, hookArgv, packages, pipefail, curlExit, hookExit>>

\* both ends of the pipe are done: the entry exits with the pipeline's status
PipelineEnds ==
    /\ hpc = "pipe"
    /\ curlExit # -1
    /\ bashExit # -1
    /\ hookExit' = PipeStatus(pipefail, curlExit, bashExit)
    /\ hpc' = "done"
    /\ UNCHANGED <<staged, hookArgv, packages, pipefail, curlExit, bashExit>>

----------------------------------------------------------------------------
(* Specifications *)

HookInit ==
    /\ hpc = "idle"
    /\ staged = {}
    /\ hookArgv = {}
    /\ packages = {}
    /\ pipefail = FALSE
    /\ curlExit = -1
    /\ bashExit = -1
    /\ hookExit = -1

Init == NbInit /\ HookInit

Next ==
    \/ \E n \in {"tips", "rag"} : RunAll(n) /\ UNCHANGED hookVars
    \/ Define /\ UNCHANGED hookVars
    \/ Issue /\ UNCHANGED hookVars
    \/ Return /\ UNCHANGED hookVars
    \/ Fail /\ UNCHANGED hookVars
    \/ StreamNext /\ UNCHANGED hookVars
    \/ StreamFail /\ UNCHANGED hookVars
    \/ StreamEnd /\ UNCHANGED hookVars
    \/ Dump /\ UNCHANGED hookVars
    \/ Hello /\ UNCHANGED hookVars
    \/ LoopPrint /\ UNCHANGED hookVars
    \/ LoopEnd /\ UNCHANGED hookVars
    \/ Graph /\ UNCHANGED hookVars
    \/ NextCell /\ UNCHANGED hookVars

Spec == Init /\ [][Next]_vars

\* the kernel keeps executing while a step is possible
FairSpec == Spec /\ WF_vars(Next)

HookNext ==
    \/ \E S \in (SUBSET Files) \ {{}} : HookStart(S) /\ UNCHANGED nbVars
    \/ SetUp /\ UNCHANGED nbVars
    \/ \E c \in CurlStatuses : CurlEnds(c) /\ UNCHANGED nbVars
    \/ \E b \in BashStatuses : BashEnds(b) /\ UNCHANGED nbVars
    \/ PipelineEnds /\ UNCHANGED nbVars

HookSpec == Init /\ [][HookNext]_vars

----------------------------------------------------------------------------
(* Properties of the notebooks *)

Range(q) == {q[i] : i \in DOMAIN q}

Running == pc \in {"defs", "call", "wait", "stream", "show", "end"}

\* C1: requests are sequential and single-shot: at most one request is in
\* flight at any time, a cell issues at most one request, and a request cell
\* that has run to its end has issued exactly one.
C1_SequentialSingleShot ==
    /\ inflight <= 1
    /\ issued <= 1
    /\ inflight = 1 <=> pc \in {"wait", "stream"}
    /\ (pc = "end" /\ Cur.request) => issued = 1

\* the personal assistant cell of the RAG notebook waits for its request,
\* the only one outstanding, after the three earlier requests of the run
C1_Witness ==
    /\ nb = "rag" /\ cell = 8 /\ pc = "wait"
    /\ inflight = 1 /\ issued = 1

\* C2: the notebooks have no retry or recovery: once a request has ended in
\* an error the run stays stopped in that cell with that error, nothing is
\* outstanding, and no further request is issued.
C2_NoRetry ==
    [][ /\ err # "none" => UNCHANGED <<err, pc, cell, issued, inflight>>
        /\ err' # "none" => /\ pc' = "error"
                            /\ inflight' = 0
                            /\ issued' = issued
                            /\ cell' = cell ]_vars

\* the Query cell stopped by a validation error after its single request
C2_Witness ==
    /\ nb = "rag" /\ cell = 5 /\ pc = "error"
    /\ err = "validation" /\ issued = 1 /\ inflight = 0

\* the class a request is issued with is the binding of the namespace, and
\* the one of the cell's own class statement when it has one
SchemaBeforeRequest ==
    pc \in {"wait", "stream"} =>
        /\ req.model # 0
        /\ req.model = env[Cur.model].line
        /\ \A i \in DOMAIN Cur.defs :
              Cur.defs[i][1] = Cur.model => req.model = Cur.defs[i][2]

\* a request cell has printed something only after its call has returned
DisplayAfterReturn ==
    (Running /\ Cur.request /\ shown # <<>>) =>
        /\ issued = 1
        /\ pc \in {"stream", "show", "end"}

\* C3 as stated: schema, then call, then display, and nothing is displayed
\* for a request that failed.
C3_Original ==
    /\ SchemaBeforeRequest
    /\ DisplayAfterReturn
    /\ err # "none" => shown = <<>>

\* C3 amended: schema, then call, then display; nothing is displayed for a
\* failed request of a cell that does not stream, while a streaming cell
\* (stream=True) has printed the objects that arrived before the failure.
C3_Amended ==
    /\ SchemaBeforeRequest
    /\ DisplayAfterReturn
    /\ (err # "none" /\ ~Cur.stream) => shown = <<>>

\* the Question / QueryPlan cell has printed its plan after its request
C3_Witness ==
    /\ nb = "rag" /\ cell = 10 /\ pc = "end"
    /\ shown # <<>> /\ issued = 1

\* C4: a Character whose house is the House enum or the four-value Literal
\* always has one of the four declared houses, in results and in output.
C4_HouseDeclared ==
    \A it \in Range(resp.items) \cup Range(shown) :
        "house" \in it.keys =>
            IF resp.model = 70
            THEN it.house \in {"gryffindor", "hufflepuff", "ravenclaw", "slytherin"}
            ELSE it.house \in {"Gryffindor", "Hufflepuff", "Ravenclaw", "Slytherin"}

\* the Enum cell and then the Literal cell each returned a Character
C4_Witness ==
    /\ nb = "tips" /\ cell = 3 /\ pc = "end"
    /\ shown # <<>> /\ shown[1].house = "Slytherin"

\* the number of properties the description of the field asks for
RequestedProps == 5

\* the Character the 'Limiting the length of lists' cell has displayed
LimitedShown == nb = "tips" /\ cell = 5 /\ pc = "end"

\* C5 as stated: every Character the cell displays has exactly 5 properties.
C5_Original == LimitedShown => Len(shown[1].subs) = RequestedProps

\* C5 amended: every Character the cell displays has a properties list of
\* Property records that each carry index, key and value; its length is
\* whatever the response held (5 is asked for in the description only).
C5_Amended ==
    LimitedShown =>
        \A i \in DOMAIN shown[1].subs :
            shown[1].subs[i].keys = {"index", "key", "value"}

\* the cell displayed a Character with 5 indexed properties
C5_Witness ==
    /\ LimitedShown
    /\ Len(shown[1].subs) = RequestedProps

\* C6: every Query result carries a rewritten query, a range of published
\* dates and a list of domains.
C6_QueryCarriesDomains ==
    (nb = "rag" /\ cell \in {5, 6} /\ pc = "end") =>
        {"rewritten_query", "published_daterange", "domains"} \subseteq shown[1].keys

\* the personal assistant cells have printed their Retrival
RetrivalShown(c) == nb = "rag" /\ cell = c /\ pc = "end"

C10_NoDuplicateEdges ==
    (nb = "tips" /\ cell = 9 /\ pc = "end") =>
        \A i, j \in DOMAIN dot.edges :
            i # j => {dot.edges[i][1], dot.edges[i][2]} # {dot.edges[j][1], dot.edges[j][2]}

\* the pairs <<a, c>> joined by a path of at most n + 1 edges of R
RECURSIVE Paths(_, _)
Paths(R, n) ==
    IF n = 0 THEN R
    ELSE LET S == Paths(R, n - 1)
         IN  S \cup {<<pe[1][1], pe[2][2]>> : pe \in {x \in S \X R : x[1][2] = x[2][1]}}

\* the graph has a directed cycle (a self-loop is one)
HasCycle(edges) ==
    LET R == Range(edges)
    IN  \E p \in Paths(R, Cardinality(R)) : p[1] = p[2]

\* C11: every edge of the graph goes from a user of the response to one of
\* that user's friends whose id is strictly greater than the user's id;
\* hence the graph has no self-loop and no directed cycle.
C11_EdgesAscend ==
    /\ \A k \in DOMAIN dot.edges :
          /\ \E u \in Range(resp.items) :
                /\ dot.edges[k][1] = Str(u.id)
                /\ \E f \in Range(u.friends) : f > u.id /\ dot.edges[k][2] = Str(f)
          /\ dot.edges[k][1] # dot.edges[k][2]
    /\ ~HasCycle(dot.edges)

\* the graph was drawn from a response in which a user lists its own id and a
\* greater one: the greater one has its edge, the own id has none
C11_Witness ==
    /\ nb = "tips" /\ cell = 9 /\ pc = "end"
    /\ \E u \in Range(resp.items) :
          /\ u.id \in Range(u.friends)
          /\ \E f \in Range(u.friends) : f > u.id
    /\ dot.edges # <<>>

----------------------------------------------------------------------------
(* Properties of the hook *)

\* C8 as stated: whatever is staged, the hook checks exactly the two paths.
C8_Original ==
    hpc \in {"skipped", "done"} =>
        /\ packages = {"instructor/cli/cli.py", "instructor/cli/usage.py"}
        /\ hookArgv = {}

\* C8 amended: whenever the hook runs (some staged file is of type python)
\* it names exactly the two paths and receives no staged filename; a commit
\* that stages no python file skips the hook, which then checks nothing.
C8_Amended ==
    /\ hpc \in {"pipe", "done"} =>
          /\ packages = {"instructor/cli/cli.py", "instructor/cli/usage.py"}
          /\ hookArgv = {}
    /\ hpc = "skipped" =>
          /\ \A f \in staged : "python" \notin TypesOf(f)
          /\ packages = {}

\* the hook ran on a commit that stages neither of the two paths
C8_Witness ==
    /\ hpc = "done"
    /\ staged = {"instructor/patch.py", "README.md"}

\* C9: the hook exits zero only when both the fetch and the fetched script
\* succeed; a non-zero curl or a non-zero bash makes it exit non-zero.
C9_FailsWhenAnyStageFails ==
    hpc = "done" => (hookExit = 0 <=> (curlExit = 0 /\ bashExit = 0))

\* the fetch failed, the bash reading the empty pipe succeeded, the hook failed
C9_Witness ==
    /\ hpc = "done"
    /\ curlExit = 6 /\ bashExit = 0 /\ hookExit # 0

====
